---- MODULE Spec2Model ----
(***************************************************************************)
(* The %version_information line magic of the version_information package *)
(* (src/version_information/version_information.py).                      *)
(*                                                                         *)
(* A Python str is modelled as a sequence of one-character strings, so     *)
(* that replace, split, startswith, slicing and the escaping tables act on *)
(* characters as the code does.  A record of self.packages is a pair      *)
(* <<name, version>> of such sequences.                                    *)
(***************************************************************************)
EXTENDS Integers, Sequences, FiniteSets, TLC

VARIABLES
    packages,       \* self.packages of the one registered VersionInformation instance
    pkg_resources,  \* the module global: "module", or "None" when its import failed
    ipython_major,  \* IPython.version_info[0]
    pc,             \* "loaded" | "returned" (the magic returned self) | "raised"
    line,           \* the argument of the last invocation
    calls,          \* the external calls the last invocation made, with their responses
    raised,         \* the exception the last invocation let through, or NoExc
    out             \* what the last _repr_*_ hook handed to the front-end

vars == <<packages, pkg_resources, ipython_major, pc, line, calls, raised, out>>

----------------------------------------------------------------------------
(* Bounds of the model.                                                    *)

MaxLineLen == 3

MaxValueLen == 2

----------------------------------------------------------------------------
(* Python str primitives.                                                  *)

\* All sequences over alphabet of length at most n.
StrUpTo(alphabet, n) == UNION {[1..k -> alphabet] : k \in 0..n}

RECURSIVE Join(_)
\* "".join(parts)
Join(parts) == IF parts = <<>> THEN <<>> ELSE Head(parts) \o Join(Tail(parts))

\* str_.replace(old, new) for a one-character old
Replace(str_, old, new) ==
    Join([i \in 1..Len(str_) |-> IF str_[i] = old THEN new ELSE <<str_[i]>>])

RECURSIVE Split(_, _)
\* str_.split(sep) for a one-character sep: always at least one field
Split(str_, sep) ==
    IF \A i \in 1..Len(str_) : str_[i] # sep
    THEN <<str_>>
    ELSE LET i == CHOOSE j \in 1..Len(str_) :
                    str_[j] = sep /\ \A k \in 1..(j - 1) : str_[k] # sep
         IN  <<SubSeq(str_, 1, i - 1)>> \o Split(SubSeq(str_, i + 1, Len(str_)), sep)

\* str_.startswith(c) for a one-character c
StartsWith(str_, c) == Len(str_) > 0 /\ str_[1] = c

\* str_[1:]
Slice1(str_) == SubSeq(str_, 2, Len(str_))

----------------------------------------------------------------------------
(* Exceptions.  `except Exception` catches every class but the ones that   *)
(* derive from BaseException directly.                                     *)

NoExc == [cls |-> "", msg |-> <<>>]

BaseOnlyClasses == {"SystemExit", "KeyboardInterrupt", "GeneratorExit"}

\* isinstance(e, Exception), the test of an `except Exception` clause
IsException(e) == e.cls \notin BaseOnlyClasses

\* str(e)
StrExc(e) == e.msg

Ok(v) == [kind |-> "ok", value |-> v, exc |-> NoExc]

Raise(cls, msg) == [kind |-> "raise", value |-> <<>>, exc |-> [cls |-> cls, msg |-> msg]]

----------------------------------------------------------------------------
(* The environment: what the three external calls of the resolver can      *)
(* answer.  The names of the world are not interpreted: any name can load, *)
(* fail, or stop the interpreter.                                          *)

\* exec("import m; version=str(m.__version__)"): ns_l["version"], or what it raised
ExecResponses ==
    { Ok(<<"1">>),
      Raise("ImportError", <<"N">>),
      Raise("SystemExit", <<"X">>) }

\* pkg_resources.require(m)[0].version, or what it raised
RequireResponses ==
    { Ok(<<"9">>),
      Raise("DistributionNotFound", <<"D">>) }

\* subprocess.getoutput(cmd): the output of the shell (also when the
\* executable is missing or exits non-zero), or what it raised
GetoutputResponses ==
    { Ok(<<"o">>),
      Raise("ValueError", <<"V">>),
      Raise("KeyboardInterrupt", <<"K">>) }

World == [exec |-> ExecResponses, require |-> RequireResponses,
          getoutput |-> GetoutputResponses]

----------------------------------------------------------------------------
(* Baseline records (version_information, the list literal).               *)

python_version == <<"3">>

architecture == <<"6", "4">>

python_compiler == <<"G">>

platform_platform == <<"L", "-", "x", "_", "6">>

IPython_version == <<"7", ".", "0">>

NamePython == <<"P", "y", "t", "h", "o", "n">>

NameIPython == <<"I", "P", "y", "t", "h", "o", "n">>

NameOS == <<"O", "S">>

Baseline ==
    << <<NamePython, python_version \o <<" ">> \o architecture \o <<" ", "[">>
                       \o python_compiler \o <<"]">> >>,
       <<NameIPython, IPython_version>>,
       <<NameOS, Replace(platform_platform, "-", <<" ">>)>> >>

----------------------------------------------------------------------------
(* The resolver.  self is [packages, calls, raised]; each operator gives   *)
(* the set of states the method can leave self in, one per response of the *)
(* calls it makes.  env is [pkg_resources, world].                         *)

\* Mutant: the record is put in front of the list instead of at its end.
PackagesAppend_Front(self, name, version) ==
    [self EXCEPT !.packages = <<<<name, version>>>> \o @]

\* self.packages.append((name, version))
PackagesAppend(self, name, version) ==
    [self EXCEPT !.packages = Append(@, <<name, version>>)]

\* The call is made: it is logged with the number of records held then.
Called(self, fn, arg, res) ==
    [self EXCEPT !.calls = Append(@, [fn |-> fn, arg |-> arg, res |-> res,
                                      at |-> Len(self.packages)])]

\* The exception leaves the method.
Propagate(self, e) == [self EXCEPT !.raised = e]

VersionFlag == <<" ", "-", "-", "v", "e", "r", "s", "i", "o", "n">>

PackageNotFound ==
    <<"P", "a", "c", "k", "a", "g", "e", " ", "n", "o", "t", " ",
      "f", "o", "u", "n", "d", " ">>

\* Mutant: no try around getoutput, so whatever it raises leaves the method.
get_non_python_package_version_NoTry(self, package, env) ==
    UNION { LET s1 == [self EXCEPT !.calls =
                          Append(@, [fn |-> "getoutput", arg |-> package \o VersionFlag,
                                     res |-> r, at |-> Len(self.packages)])] IN
            IF r.kind = "ok"
            THEN { [s1 EXCEPT !.packages = Append(@, <<package, r.value>>)] }
            ELSE { [s1 EXCEPT !.raised = r.exc] }
          : r \in env.world.getoutput }

get_non_python_package_version(self, package, env) ==
    UNION { LET s1 == Called(self, "getoutput", package \o VersionFlag, r) IN
            IF r.kind = "ok"
            THEN { PackagesAppend(s1, package, r.value) }
            ELSE IF IsException(r.exc)
            THEN { PackagesAppend(s1, package, PackageNotFound \o StrExc(r.exc)) }
            ELSE { Propagate(s1, r.exc) }
          : r \in env.world.getoutput }

\* Mutant: the inner clause does not rebind e, so the import error is the
\* value when the lookup fails.
MetadataFallback_FirstError(s1, module, e, env) ==
    IF env.pkg_resources = "None"
    THEN { [s1 EXCEPT !.packages = Append(@, <<module, e.msg>>)] }
    ELSE UNION { LET s2 == [s1 EXCEPT !.calls =
                               Append(@, [fn |-> "require", arg |-> module, res |-> q,
                                          at |-> Len(s1.packages)])] IN
                 IF q.kind = "ok"
                 THEN { [s2 EXCEPT !.packages = Append(@, <<module, q.value>>)] }
                 ELSE IF q.exc.cls \notin BaseOnlyClasses
                 THEN { [s2 EXCEPT !.packages = Append(@, <<module, e.msg>>)] }
                 ELSE { [s2 EXCEPT !.raised = q.exc] }
               : q \in env.world.require }

\* The handler of the outer `except Exception as e`, entered with e bound.
MetadataFallback(s1, module, e, env) ==
    IF env.pkg_resources = "None"
    THEN \* bare raise: e is raised again and caught by the inner clause
         { PackagesAppend(s1, module, StrExc(e)) }
    ELSE UNION { LET s2 == Called(s1, "require", module, q) IN
                 IF q.kind = "ok"
                 THEN { PackagesAppend(s2, module, q.value) }
                 ELSE IF IsException(q.exc)
                 THEN \* the inner `as e` rebinds e to the lookup's exception
                      { PackagesAppend(s2, module, StrExc(q.exc)) }
                 ELSE { Propagate(s2, q.exc) }
               : q \in env.world.require }

\* Mutant: the metadata index is asked first and the module is imported
\* only when the lookup fails.
get_module_version_MetadataFirst(self, module, env) ==
    UNION { LET s1 == [self EXCEPT !.calls =
                          Append(@, [fn |-> "require", arg |-> module, res |-> q,
                                     at |-> Len(self.packages)])] IN
            IF q.kind = "ok"
            THEN { [s1 EXCEPT !.packages = Append(@, <<module, q.value>>)] }
            ELSE IF q.exc.cls \in BaseOnlyClasses
            THEN { [s1 EXCEPT !.raised = q.exc] }
            ELSE UNION { LET s2 == [s1 EXCEPT !.calls =
                                       Append(@, [fn |-> "exec", arg |-> module, res |-> r,
                                                  at |-> Len(s1.packages)])] IN
                         IF r.kind = "ok"
                         THEN { [s2 EXCEPT !.packages = Append(@, <<module, r.value>>)] }
                         ELSE IF r.exc.cls \in BaseOnlyClasses
                         THEN { [s2 EXCEPT !.raised = r.exc] }
                         ELSE { [s2 EXCEPT !.packages = Append(@, <<module, r.exc.msg>>)] }
                       : r \in env.world.exec }
          : q \in env.world.require }

get_module_version(self, module, env) ==
    UNION { LET s1 == Called(self, "exec", module, r) IN
            IF r.kind = "ok"
            THEN { PackagesAppend(s1, module, r.value) }
            ELSE IF IsException(r.exc)
            THEN MetadataFallback(s1, module, r.exc, env)
            ELSE { Propagate(s1, r.exc) }
          : r \in env.world.exec }

\* Mutant: the spaces are not removed before the split.
ParseModules_NoStrip(ln) == Split(ln, ",")

\* modules = line.replace(' ', '').split(",")
ParseModules(ln) == Split(Replace(ln, " ", <<>>), ",")

\* The body of the for loop for one module.
ResolveModule(self, module, env) ==
    IF Len(module) > 0
    THEN IF StartsWith(module, "!")
         THEN get_non_python_package_version(self, Slice1(module), env)
         ELSE get_module_version(self, module, env)
    ELSE { self }

RECURSIVE ForEachModule(_, _, _)
\* for module in modules: ...; an exception that is not caught ends the loop
ForEachModule(self, modules, env) ==
    IF modules = <<>>
    THEN { self }
    ELSE UNION { IF s.raised # NoExc THEN { s }
                 ELSE ForEachModule(s, Tail(modules), env)
               : s \in ResolveModule(self, Head(modules), env) }

\* One call of the magic: the states of self it can end in.
RunCommand(ln, env) ==
    ForEachModule([packages |-> Baseline, calls |-> <<>>, raised |-> NoExc],
                  ParseModules(ln), env)

----------------------------------------------------------------------------
(* The display hooks.  Each is a function of self.packages and of what     *)
(* time.strftime(timefmt) answers.                                         *)

\* d.get(c, c) for a dict d of replacements
DictGet(d, c) == IF c \in DOMAIN d THEN d[c] ELSE <<c>>

\* CHARS of _htmltable_escape
HtmlTableCHARS ==
    "&" :> <<"\\", "&">> @@
    "%" :> <<"\\", "%">> @@
    "$" :> <<"\\", "$">> @@
    "#" :> <<"\\", "#">> @@
    "_" :> <<"\\", "_">> @@
    "{" :> <<"\\", "l", "e", "t", "t", "e", "r", "o", "p", "e", "n", "b", "r",
             "a", "c", "e", "{", "}">> @@
    "}" :> <<"\\", "l", "e", "t", "t", "e", "r", "c", "l", "o", "s", "e", "b",
             "r", "a", "c", "e", "{", "}">> @@
    "~" :> <<"\\", "l", "e", "t", "t", "e", "r", "t", "i", "l", "d", "e", "{", "}">> @@
    "^" :> <<"\\", "l", "e", "t", "t", "e", "r", "h", "a", "t", "{", "}">> @@
    "\\" :> <<"\\", "l", "e", "t", "t", "e", "r", "b", "a", "c", "k", "s", "l",
              "a", "s", "h", "{", "}">> @@
    ">" :> <<"\\", "t", "e", "x", "t", "g", "r", "e", "a", "t", "e", "r">> @@
    "<" :> <<"\\", "t", "e", "x", "t", "l", "e", "s", "s">>

\* u"".join([CHARS.get(c, c) for c in str_])
htmltable_escape(str_) ==
    Join([i \in 1..Len(str_) |-> DictGet(HtmlTableCHARS, str_[i])])

HtmlOpen ==
    <<"<", "t", "a", "b", "l", "e", ">">>

HtmlHeaderRow ==
    <<"<", "t", "r", ">", "<", "t", "h", ">", "S", "o", "f", "t", "w", "a",
      "r", "e", "<", "/", "t", "h", ">", "<", "t", "h", ">", "V", "e", "r",
      "s", "i", "o", "n", "<", "/", "t", "h", ">", "<", "/", "t", "r", ">">>

HtmlRowA ==
    <<"<", "t", "r", ">", "<", "t", "d", ">">>

HtmlRowB ==
    <<"<", "/", "t", "d", ">", "<", "t", "d", ">">>

HtmlRowC ==
    <<"<", "/", "t", "d", ">", "<", "/", "t", "r", ">">>

HtmlTimeA ==
    <<"<", "t", "r", ">", "<", "t", "d", " ", "c", "o", "l", "s", "p", "a",
      "n", "=", "'", "2", "'", ">">>

HtmlTimeB ==
    <<"<", "/", "t", "d", ">", "<", "/", "t", "r", ">">>

HtmlClose ==
    <<"<", "/", "t", "a", "b", "l", "e", ">">>

\* The try branch of the timestamp row is the one taken: strftime of a
\* fixed format does not raise.
repr_html(pk, ts) ==
    HtmlOpen \o HtmlHeaderRow
    \o Join([k \in 1..Len(pk) |->
                HtmlRowA \o pk[k][1] \o HtmlRowB \o htmltable_escape(pk[k][2]) \o HtmlRowC])
    \o HtmlTimeA \o ts \o HtmlTimeB
    \o HtmlClose

\* CHARS of _latex_escape
LatexCHARS ==
    "&" :> <<"\\", "&">> @@
    "%" :> <<"\\", "%">> @@
    "$" :> <<"\\", "$">> @@
    "#" :> <<"\\", "#">> @@
    "_" :> <<"\\", "_">> @@
    "{" :> <<"\\", "l", "e", "t", "t", "e", "r", "o", "p", "e", "n", "b", "r",
             "a", "c", "e", "{", "}">> @@
    "}" :> <<"\\", "l", "e", "t", "t", "e", "r", "c", "l", "o", "s", "e", "b",
             "r", "a", "c", "e", "{", "}">> @@
    "~" :> <<"\\", "l", "e", "t", "t", "e", "r", "t", "i", "l", "d", "e", "{", "}">> @@
    "^" :> <<"\\", "l", "e", "t", "t", "e", "r", "h", "a", "t", "{", "}">> @@
    "\\" :> <<"\\", "l", "e", "t", "t", "e", "r", "b", "a", "c", "k", "s", "l",
              "a", "s", "h", "{", "}">> @@
    ">" :> <<"\\", "t", "e", "x", "t", "g", "r", "e", "a", "t", "e", "r">> @@
    "<" :> <<"\\", "t", "e", "x", "t", "l", "e", "s", "s">>

\* Mutant: the backslash is missing from the table.
latex_escape_NoBackslash(str_) ==
    Join([i \in 1..Len(str_) |->
             IF str_[i] = "\\" THEN <<str_[i]>> ELSE DictGet(LatexCHARS, str_[i])])

\* u"".join([CHARS.get(c, c) for c in str_])
latex_escape(str_) ==
    Join([i \in 1..Len(str_) |-> DictGet(LatexCHARS, str_[i])])

LatexBegin ==
    <<"\\", "b", "e", "g", "i", "n", "{", "t", "a", "b", "u", "l", "a",
      "r", "}", "{", "|", "l", "|", "l", "|", "}", "\\", "h", "l", "i",
      "n", "e", "\n">>

LatexHeaderRow ==
    <<"{", "\\", "b", "f", " ", "S", "o", "f", "t", "w", "a", "r", "e",
      "}", " ", "&", " ", "{", "\\", "b", "f", " ", "V", "e", "r", "s",
      "i", "o", "n", "}", " ", "\\", "\\", " ", "\\", "h", "l", "i", "n",
      "e", "\\", "h", "l", "i", "n", "e", "\n">>

LatexRowB ==
    <<" ", "&", " ">>

LatexRowC ==
    <<" ", "\\", "\\", " ", "\\", "h", "l", "i", "n", "e", "\n">>

LatexTimeA ==
    <<"\\", "h", "l", "i", "n", "e", " ", "\\", "m", "u", "l", "t", "i",
      "c", "o", "l", "u", "m", "n", "{", "2", "}", "{", "|", "l", "|", "}",
      "{">>

LatexTimeB ==
    <<"}", " ", "\\", "\\", " ", "\\", "h", "l", "i", "n", "e", "\n">>

LatexEnd ==
    <<"\\", "e", "n", "d", "{", "t", "a", "b", "u", "l", "a", "r", "}", "\n">>

repr_latex(pk, ts) ==
    LatexBegin \o LatexHeaderRow
    \o Join([k \in 1..Len(pk) |->
                pk[k][1] \o LatexRowB \o latex_escape(pk[k][2]) \o LatexRowC])
    \o LatexTimeA \o ts \o LatexTimeB
    \o LatexEnd

PrettyHeading ==
    <<"S", "o", "f", "t", "w", "a", "r", "e", " ", "v", "e", "r", "s", "i",
      "o", "n", "s", "\n">>

\* The text handed to pp.text
repr_pretty(pk, ts) ==
    PrettyHeading
    \o Join([k \in 1..Len(pk) |-> pk[k][1] \o <<" ">> \o pk[k][2] \o <<"\n">>])
    \o ts

(* Python values handed to the front-end or to json.dumps: a str, a list   *)
(* or a dict (its items in insertion order).                               *)

PyStr(s) == [t |-> "str", v |-> s]

PyList(items) == [t |-> "list", v |-> items]

PyDict(items) == [t |-> "dict", v |-> items]

NoObj == [t |-> "none", v |-> <<>>]

KeySoftwareVersions ==
    <<"S", "o", "f", "t", "w", "a", "r", "e", " ", "v", "e", "r", "s", "i",
      "o", "n", "s">>

KeyModule == <<"m", "o", "d", "u", "l", "e">>

KeyVersion == <<"v", "e", "r", "s", "i", "o", "n">>

RECURSIVE JoinSep(_, _)
\* sep.join(parts)
JoinSep(parts, sep) ==
    IF parts = <<>> THEN <<>>
    ELSE IF Len(parts) = 1 THEN parts[1]
    ELSE Head(parts) \o sep \o JoinSep(Tail(parts), sep)

\* Mutant: the backslash is not escaped.
JsonEscapeChar_NoBackslash(c) ==
    CASE c = "\"" -> <<"\\", "\"">>
      [] c = "\n" -> <<"\\", "n">>
      [] c = "\r" -> <<"\\", "r">>
      [] c = "\t" -> <<"\\", "t">>
      [] OTHER -> <<c>>

\* json.encoder: the escape of one character inside a JSON string
\* (ensure_ascii; the characters of the model are ASCII)
JsonEscapeChar(c) ==
    CASE c = "\"" -> <<"\\", "\"">>
      [] c = "\\" -> <<"\\", "\\">>
      [] c = "\n" -> <<"\\", "n">>
      [] c = "\r" -> <<"\\", "r">>
      [] c = "\t" -> <<"\\", "t">>
      [] OTHER -> <<c>>

JsonString(s) ==
    <<"\"">> \o Join([i \in 1..Len(s) |-> JsonEscapeChar(s[i])]) \o <<"\"">>

RECURSIVE json_dumps(_)
\* json.dumps(obj) with the default separators ", " and ": "
json_dumps(obj) ==
    IF obj.t = "str" THEN JsonString(obj.v)
    ELSE IF obj.t = "list"
    THEN <<"[">> \o JoinSep([k \in 1..Len(obj.v) |-> json_dumps(obj.v[k])], <<",", " ">>)
         \o <<"]">>
    ELSE <<"{">>
         \o JoinSep([k \in 1..Len(obj.v) |->
                        JsonString(obj.v[k][1]) \o <<":", " ">> \o json_dumps(obj.v[k][2])],
                    <<",", " ">>)
         \o <<"}">>

\* The dict built by _repr_json_
VersionsObject(pk) ==
    PyDict(<< <<KeySoftwareVersions,
                PyList([k \in 1..Len(pk) |->
                           PyDict(<< <<KeyModule, PyStr(pk[k][1])>>,
                                     <<KeyVersion, PyStr(pk[k][2])>> >>)])>> >>)

\* What _repr_json_ returns: the dict itself from IPython 3 on, its JSON
\* text before.
repr_json(pk, major) ==
    IF major >= 3
    THEN [text |-> <<>>, obj |-> VersionsObject(pk)]
    ELSE [text |-> json_dumps(VersionsObject(pk)), obj |-> NoObj]

----------------------------------------------------------------------------
(* The state machine.                                                      *)

LineAlphabet == {"a", ",", " ", "\t", "!"}

Lines == StrUpTo(LineAlphabet, MaxLineLen)

NoOutput == [fmt |-> "none", text |-> <<>>, obj |-> NoObj, ts |-> <<>>]

PkgStates == {"module", "None"}

\* Every (line, outcome) of one call of the magic, per value of the module
\* global pkg_resources; it does not depend on the state the call starts in,
\* because the call assigns self.packages before it reads it.
Invocations ==
    [p \in PkgStates |->
        UNION { { [line |-> ln, self |-> s]
                  : s \in RunCommand(ln, [pkg_resources |-> p, world |-> World]) }
                : ln \in Lines }]

\* load_ipython_extension: the class is registered and instantiated once;
\* self.packages does not exist before the first invocation.  Only
\* _repr_json_ reads IPython.version_info; the display steps below start
\* from both of its cases.
Init ==
    /\ packages = <<>>
    /\ pkg_resources \in PkgStates
    /\ ipython_major = 3
    /\ pc = "loaded"
    /\ line = <<>>
    /\ calls = <<>>
    /\ raised = NoExc
    /\ out = NoOutput

\* %version_information line
version_information ==
    \E inv \in Invocations[pkg_resources] :
        /\ packages' = inv.self.packages
        /\ calls' = inv.self.calls
        /\ raised' = inv.self.raised
        /\ pc' = IF inv.self.raised = NoExc THEN "returned" ELSE "raised"
        /\ line' = inv.line
        /\ UNCHANGED <<pkg_resources, ipython_major, out>>

Next == version_information

Spec == Init /\ [][Next]_vars

----------------------------------------------------------------------------
(* The display hooks as steps: the front-end asks the returned object for  *)
(* one of its representations.  The inputs are the record sequences one    *)
(* invocation leaves, over version values that hold every character the    *)
(* escape tables name.                                                     *)

FmtAlphabet ==
    {"a", "\"", "\n", "&", "%", "$", "#", "_", "{", "}", "~", "^", "\\", "<", ">"}

FmtValues == StrUpTo(FmtAlphabet, MaxValueLen)

FmtWorld == [exec |-> {Ok(v) : v \in FmtValues}, require |-> RequireResponses,
             getoutput |-> {Ok(v) : v \in FmtValues}]

FmtLines == {<<"a">>, <<"!", "\"">>}

\* time.strftime(timefmt)
Timestamps == {<<"M", "o", "n">>, <<"T", "u", "e">>}

IPythonMajors == {2, 3}

InitFmt ==
    /\ pkg_resources = "module"
    /\ ipython_major \in IPythonMajors
    /\ \E ln \in FmtLines :
          \E s \in RunCommand(ln, [pkg_resources |-> "module", world |-> FmtWorld]) :
              /\ packages = s.packages
              /\ calls = s.calls
              /\ raised = s.raised
              /\ line = ln
    /\ pc = "returned"
    /\ out = NoOutput

Display_html ==
    /\ pc = "returned"
    /\ \E ts \in Timestamps :
          out' = [fmt |-> "html", text |-> repr_html(packages, ts), obj |-> NoObj, ts |-> ts]
    /\ UNCHANGED <<packages, pkg_resources, ipython_major, pc, line, calls, raised>>

Display_latex ==
    /\ pc = "returned"
    /\ \E ts \in Timestamps :
          out' = [fmt |-> "latex", text |-> repr_latex(packages, ts), obj |-> NoObj, ts |-> ts]
    /\ UNCHANGED <<packages, pkg_resources, ipython_major, pc, line, calls, raised>>

Display_pretty ==
    /\ pc = "returned"
    /\ \E ts \in Timestamps :
          out' = [fmt |-> "pretty", text |-> repr_pretty(packages, ts), obj |-> NoObj, ts |-> ts]
    /\ UNCHANGED <<packages, pkg_resources, ipython_major, pc, line, calls, raised>>

Display_json ==
    /\ pc = "returned"
    /\ LET r == repr_json(packages, ipython_major) IN
          out' = [fmt |-> "json", text |-> r.text, obj |-> r.obj, ts |-> <<>>]
    /\ UNCHANGED <<packages, pkg_resources, ipython_major, pc, line, calls, raised>>

NextFmt == Display_html \/ Display_latex \/ Display_pretty \/ Display_json

SpecFmt == InitFmt /\ [][NextFmt]_vars

----------------------------------------------------------------------------
(* Vocabulary of the claims, stated on the input line and on the log of    *)
(* calls, independently of the operators above.                            *)

\* str_ without the characters of drop
Without(str_, drop) == SelectSeq(str_, LAMBDA c : c \notin drop)

\* The comma-separated fields of str_, by the positions of its commas.
CommaFields(str_) ==
    LET commas == {i \in 1..Len(str_) : str_[i] = ","}
        n == Cardinality(commas)
        pos(k) == IF k = 0 THEN 0
                  ELSE IF k = n + 1 THEN Len(str_) + 1
                  ELSE CHOOSE i \in commas : Cardinality({j \in commas : j <= i}) = k
    IN  [k \in 1..(n + 1) |-> SubSeq(str_, pos(k - 1) + 1, pos(k) - 1)]

\* The subjects of a line: its fields that are non-empty once the
\* characters of blanks are removed from the line.
Subjects(ln, blanks) ==
    SelectSeq(CommaFields(Without(ln, blanks)), LAMBDA f : f # <<>>)

Whitespace == {" ", "\t", "\n", "\r"}

SpaceOnly == {" "}

Marked(f) == f[1] = "!"

\* The name a subject is recorded under.
SubjectName(f) == IF Marked(f) THEN SubSeq(f, 2, Len(f)) ELSE f

\* The calls made while record k was being resolved.
CallsFor(k) == SelectSeq(calls, LAMBDA c : c.at = k - 1)

Last(s) == s[Len(s)]

Invoked == pc # "loaded"

Escaped(c) == c.res.kind = "raise" /\ c.res.exc.cls \in BaseOnlyClasses

Failed(c) == c.res.kind = "raise" /\ c.res.exc.cls \notin BaseOnlyClasses

IsPrefix(s, t) == Len(s) <= Len(t) /\ SubSeq(t, 1, Len(s)) = s

----------------------------------------------------------------------------
(* C1 *)

\* C1 as stated: whatever the resolution strategies do, the command returns
\* normally with one record for each requested subject.
C1_Total ==
    Invoked => /\ pc = "returned"
               /\ raised = NoExc
               /\ Len(packages) = 3 + Len(Subjects(line, SpaceOnly))

\* C1, amended: a failure that is an instance of Exception is captured as the
\* value of the subject's record, and the command returns with one record per
\* requested subject exactly when no call raised outside Exception
\* (SystemExit, KeyboardInterrupt, GeneratorExit); such an exception, and
\* only such, reaches the caller.
C1_TotalForExceptions ==
    Invoked =>
        /\ pc = "raised" <=> \E i \in 1..Len(calls) : Escaped(calls[i])
        /\ pc = "raised" => raised = Last(calls).res.exc
        /\ pc = "returned" =>
              /\ raised = NoExc
              /\ Len(packages) = 3 + Len(Subjects(line, SpaceOnly))
              /\ \A k \in 4..Len(packages) :
                    LET cs == CallsFor(k) IN
                    /\ cs # <<>>
                    /\ Failed(Last(cs)) =>
                          packages[k][2] =
                              (IF Last(cs).fn = "getoutput" THEN PackageNotFound ELSE <<>>)
                              \o Last(cs).res.exc.msg

\* C1 witness: the command returned although the import, the metadata lookup
\* and the executable of its subjects failed.
C1_Witness ==
    /\ pc = "returned"
    /\ Len(packages) = 5
    /\ \E i, j, k \in 1..Len(calls) :
          /\ calls[i].fn = "exec" /\ Failed(calls[i])
          /\ calls[j].fn = "require" /\ Failed(calls[j])
          /\ calls[k].fn = "getoutput" /\ Failed(calls[k])

----------------------------------------------------------------------------
(* C2 *)

\* Record k belongs to an unmarked subject whose import and metadata lookup
\* both failed.
BothFailed(k) ==
    LET cs == CallsFor(k) IN
    /\ Len(cs) = 2
    /\ cs[1].fn = "exec" /\ Failed(cs[1])
    /\ cs[2].fn = "require" /\ Failed(cs[2])

\* C2 as stated: when import and metadata lookup both fail, the value is the
\* error of the import step.
C2_FirstErrorRecorded ==
    \A k \in 4..Len(packages) :
        BothFailed(k) => packages[k][2] = CallsFor(k)[1].res.exc.msg

\* C2, amended: when import and metadata lookup both fail, the value is the
\* error of the metadata lookup (the last error); the import error is the
\* value only when pkg_resources is None, where no lookup is made.
C2_LastErrorRecorded ==
    \A k \in 4..Len(packages) :
        LET cs == CallsFor(k) IN
        /\ BothFailed(k) => packages[k][2] = cs[2].res.exc.msg
        /\ (cs # <<>> /\ cs[1].fn = "exec" /\ Failed(cs[1]) /\ pkg_resources = "None") =>
              /\ Len(cs) = 1
              /\ packages[k][2] = cs[1].res.exc.msg

\* C2 witness: a record whose import and lookup both failed, with different
\* error texts.
C2_Witness ==
    \E k \in 4..Len(packages) :
        /\ BothFailed(k)
        /\ CallsFor(k)[1].res.exc.msg # CallsFor(k)[2].res.exc.msg

----------------------------------------------------------------------------
(* C3 *)

\* C3 as stated: the record count is 3 plus the subjects that are non-empty
\* once whitespace is stripped from the line.
C3_CountWhitespaceStripped ==
    pc = "returned" => Len(packages) = 3 + Len(Subjects(line, Whitespace))

\* C3, amended: the record count is 3 plus the subjects that are non-empty
\* once the space characters are removed from the line; other whitespace
\* (a tab) is part of a subject.
C3_CountSpacesStripped ==
    pc = "returned" => Len(packages) = 3 + Len(Subjects(line, SpaceOnly))

\* C3 witness: a line with a space-only field, an empty field and a subject.
C3_Witness ==
    /\ pc = "returned"
    /\ line = <<" ", ",", "a">>
    /\ Len(packages) = 4

----------------------------------------------------------------------------
(* C4 *)

\* The names of the records after the first three.
RecordNames == [k \in 1..(Len(packages) - 3) |-> packages[k + 3][1]]

RequestedNames ==
    LET subj == Subjects(line, SpaceOnly) IN
    [k \in 1..Len(subj) |-> SubjectName(subj[k])]

----------------------------------------------------------------------------
(* C5 *)

\* The records a result renders: the result of an invocation is the
\* instance itself (return self), so they are the instance's packages.
RecordsOfResult == packages

\* C5: the records rendered from a returned result are not changed by
\* another invocation.
C5_ResultUnchangedByLaterInvocation ==
    [][pc = "returned" => RecordsOfResult' = RecordsOfResult]_vars

----------------------------------------------------------------------------
(* C10 *)

\* C10: a marked subject is resolved by one getoutput call on its name
\* without the marker and by nothing else; an unmarked subject is imported
\* first, a loaded version is recorded as it is without a metadata lookup,
\* and the metadata version is recorded only after the import failed.
C10_StrategyOrder ==
    LET subj == Subjects(line, SpaceOnly) IN
    \A k \in 4..(3 + Len(subj)) :
        LET f == subj[k - 3]
            cs == CallsFor(k)
        IN  cs # <<>> =>
            IF Marked(f)
            THEN /\ Len(cs) = 1
                 /\ cs[1].fn = "getoutput"
                 /\ cs[1].arg = SubjectName(f) \o VersionFlag
                 /\ k <= Len(packages) => packages[k][1] = SubjectName(f)
                 /\ (k <= Len(packages) /\ cs[1].res.kind = "ok") =>
                        packages[k][2] = cs[1].res.value
            ELSE /\ cs[1].fn = "exec" /\ cs[1].arg = f
                 /\ Len(cs) <= 2
                 /\ cs[1].res.kind = "ok" =>
                        /\ Len(cs) = 1
                        /\ packages[k] = <<f, cs[1].res.value>>
                 /\ Len(cs) = 2 =>
                        /\ cs[2].fn = "require" /\ cs[2].arg = f
                        /\ Failed(cs[1])
                        /\ cs[2].res.kind = "ok" => packages[k] = <<f, cs[2].res.value>>

\* C10 witness: of two unmarked subjects of one invocation, one loaded and
\* one fell back to the metadata index after its import failed.
C10_Witness ==
    /\ pc = "returned"
    /\ \E i \in 1..Len(calls) : calls[i].fn = "exec" /\ calls[i].res.kind = "ok"
    /\ \E i \in 1..Len(calls) : calls[i].fn = "require" /\ calls[i].res.kind = "ok"

\* The marked branch of C10: a marked subject recorded under its bare name
\* with the output of its executable.
C10_MarkedWitness ==
    /\ pc = "returned"
    /\ line = <<"!", "a">>
    /\ packages[4] = <<<<"a">>, <<"o">>>>

----------------------------------------------------------------------------
(* C6 *)

\* The HTML entity of a markup character; any other character is itself.
HtmlEntity(c) ==
    CASE c = "&" -> <<"&", "a", "m", "p", ";">>
      [] c = "<" -> <<"&", "l", "t", ";">>
      [] c = ">" -> <<"&", "g", "t", ";">>
      [] OTHER -> <<c>>

HtmlEscaped(str_) == Join([i \in 1..Len(str_) |-> HtmlEntity(str_[i])])

\* C6: the HTML rendering is the header row, one row per record in record
\* order whose version cell is the value with &, < and > as HTML entities and
\* every other character unchanged, and a final two-column row with the
\* timestamp.
C6_HtmlRowsEscaped ==
    out.fmt = "html" =>
        out.text =
            HtmlOpen \o HtmlHeaderRow
            \o Join([k \in 1..Len(packages) |->
                        HtmlRowA \o packages[k][1] \o HtmlRowB
                        \o HtmlEscaped(packages[k][2]) \o HtmlRowC])
            \o HtmlTimeA \o out.ts \o HtmlTimeB
            \o HtmlClose

----------------------------------------------------------------------------
(* C7 *)

\* C7: the plain-text rendering is the heading line, one "subject value"
\* line per record in record order, one blank line and the timestamp line.
C7_PrettyLayout ==
    out.fmt = "pretty" =>
        out.text =
            PrettyHeading
            \o Join([k \in 1..Len(packages) |->
                        packages[k][1] \o <<" ">> \o packages[k][2] \o <<"\n">>])
            \o <<"\n">>
            \o out.ts

----------------------------------------------------------------------------
(* C8 *)

ParseFail == [ok |-> FALSE, v |-> NoObj, next |-> 0]

Parsed(v, next) == [ok |-> TRUE, v |-> v, next |-> next]

\* The first position from i on that holds no space.
SkipSpaces(text, i) ==
    CHOOSE j \in i..(Len(text) + 1) :
        /\ j = Len(text) + 1 \/ text[j] # " "
        /\ \A k \in i..(j - 1) : text[k] = " "

At(text, i, c) == i <= Len(text) /\ text[i] = c

RECURSIVE ReadString(_, _, _)
\* A JSON string from the character after its opening quote.
ReadString(text, i, acc) ==
    IF i > Len(text) THEN ParseFail
    ELSE IF text[i] = "\"" THEN Parsed(PyStr(acc), i + 1)
    ELSE IF text[i] \in {"\n", "\r", "\t"} THEN ParseFail
    ELSE IF text[i] = "\\"
    THEN IF i + 1 > Len(text) THEN ParseFail
         ELSE CASE text[i + 1] \in {"\"", "\\", "/"} ->
                      ReadString(text, i + 2, Append(acc, text[i + 1]))
                [] text[i + 1] = "n" -> ReadString(text, i + 2, Append(acc, "\n"))
                [] text[i + 1] = "r" -> ReadString(text, i + 2, Append(acc, "\r"))
                [] text[i + 1] = "t" -> ReadString(text, i + 2, Append(acc, "\t"))
                [] OTHER -> ParseFail
    ELSE ReadString(text, i + 1, Append(acc, text[i]))

RECURSIVE ReadValue(_, _)
RECURSIVE ReadItems(_, _, _)
RECURSIVE ReadMembers(_, _, _)

\* The items of an array, from the position after "[" or after a comma.
ReadItems(text, i, acc) ==
    LET r == ReadValue(text, i)
        j == IF r.ok THEN SkipSpaces(text, r.next) ELSE 0
    IN  IF ~r.ok THEN ParseFail
        ELSE IF At(text, j, ",") THEN ReadItems(text, j + 1, Append(acc, r.v))
        ELSE IF At(text, j, "]") THEN Parsed(PyList(Append(acc, r.v)), j + 1)
        ELSE ParseFail

\* The members of an object, from the position after "{" or after a comma.
ReadMembers(text, i, acc) ==
    LET a == SkipSpaces(text, i)
        key == IF At(text, a, "\"") THEN ReadString(text, a + 1, <<>>) ELSE ParseFail
        c == IF key.ok THEN SkipSpaces(text, key.next) ELSE 0
        r == IF key.ok /\ At(text, c, ":") THEN ReadValue(text, c + 1) ELSE ParseFail
        j == IF r.ok THEN SkipSpaces(text, r.next) ELSE 0
    IN  IF ~r.ok THEN ParseFail
        ELSE IF At(text, j, ",")
        THEN ReadMembers(text, j + 1, Append(acc, <<key.v.v, r.v>>))
        ELSE IF At(text, j, "}")
        THEN Parsed(PyDict(Append(acc, <<key.v.v, r.v>>)), j + 1)
        ELSE ParseFail

ReadValue(text, i) ==
    LET a == SkipSpaces(text, i) IN
    IF At(text, a, "\"") THEN ReadString(text, a + 1, <<>>)
    ELSE IF At(text, a, "[")
    THEN IF At(text, SkipSpaces(text, a + 1), "]")
         THEN Parsed(PyList(<<>>), SkipSpaces(text, a + 1) + 1)
         ELSE ReadItems(text, a + 1, <<>>)
    ELSE IF At(text, a, "{")
    THEN IF At(text, SkipSpaces(text, a + 1), "}")
         THEN Parsed(PyDict(<<>>), SkipSpaces(text, a + 1) + 1)
         ELSE ReadMembers(text, a + 1, <<>>)
    ELSE ParseFail

\* json.loads(text): the whole text is one value.
JsonLoads(text) ==
    LET r == ReadValue(text, 1) IN
    IF r.ok /\ SkipSpaces(text, r.next) = Len(text) + 1 THEN r ELSE ParseFail

\* entry is the object {module: name, version: value} and nothing more.
IsEntry(entry, name, value) ==
    /\ entry.t = "dict"
    /\ Len(entry.v) = 2
    /\ entry.v[1][1] = KeyModule
    /\ entry.v[1][2].t = "str" /\ entry.v[1][2].v = name
    /\ entry.v[2][1] = KeyVersion
    /\ entry.v[2][2].t = "str" /\ entry.v[2][2].v = value

\* doc is the object with the single key "Software versions" whose array
\* holds the records of pk, one entry each, in order.
HoldsRecords(doc, pk) ==
    /\ doc.t = "dict"
    /\ Len(doc.v) = 1
    /\ doc.v[1][1] = KeySoftwareVersions
    /\ doc.v[1][2].t = "list"
    /\ Len(doc.v[1][2].v) = Len(pk)
    /\ \A k \in 1..Len(pk) : IsEntry(doc.v[1][2].v[k], pk[k][1], pk[k][2])

\* C8: the JSON rendering, parsed when it is text, is an object with the
\* single key "Software versions" whose array holds one {module, version}
\* entry per record, in record order, subject and value unaltered, and no
\* timestamp.
C8_JsonRoundTrip ==
    out.fmt = "json" =>
        IF out.obj = NoObj
        THEN LET r == JsonLoads(out.text) IN r.ok /\ HoldsRecords(r.v, packages)
        ELSE out.text = <<>> /\ HoldsRecords(out.obj, packages)

\* C8 witness: JSON text was produced for a record whose subject is a quote
\* and whose value holds a backslash and a line feed.
C8_Witness ==
    /\ out.fmt = "json"
    /\ out.obj = NoObj
    /\ Len(packages) = 4
    /\ packages[4] = << <<"\"">>, <<"\\", "\n">> >>

----------------------------------------------------------------------------
(* C9 *)

LatexSpecials == {"&", "%", "$", "#", "_", "{", "}", "~", "^", "\\", "<", ">"}

\* A value with each of the twelve characters replaced from the escape
\* table and every other character copied.
LatexImage(str_) ==
    Join([i \in 1..Len(str_) |->
             IF str_[i] \in LatexSpecials THEN LatexCHARS[str_[i]] ELSE <<str_[i]>>])

RECURSIVE LatexUnescape(_)
\* Reads a cell left to right: a backslash must start a replacement of the
\* table, and none of the twelve characters may stand outside one.
LatexUnescape(cell) ==
    IF cell = <<>> THEN [ok |-> TRUE, v |-> <<>>]
    ELSE IF Head(cell) = "\\"
    THEN LET m == {c \in LatexSpecials : IsPrefix(LatexCHARS[c], cell)} IN
         IF m = {} THEN [ok |-> FALSE, v |-> <<>>]
         ELSE LET c == CHOOSE x \in m : TRUE
                  rest == LatexUnescape(SubSeq(cell, Len(LatexCHARS[c]) + 1, Len(cell)))
              IN  [ok |-> rest.ok, v |-> <<c>> \o rest.v]
    ELSE IF Head(cell) \in LatexSpecials THEN [ok |-> FALSE, v |-> <<>>]
    ELSE LET rest == LatexUnescape(Tail(cell)) IN
         [ok |-> rest.ok, v |-> <<Head(cell)>> \o rest.v]

\* C9: in the LaTeX rendering the rows follow record order, the version cell
\* of a row is the value with each of the twelve characters replaced from
\* the escape table and nothing else changed, so that none of them stands
\* bare in the cell, and a final merged-column row carries the timestamp.
C9_LatexRowsEscaped ==
    out.fmt = "latex" =>
        /\ out.text =
              LatexBegin \o LatexHeaderRow
              \o Join([k \in 1..Len(packages) |->
                          packages[k][1] \o LatexRowB
                          \o LatexImage(packages[k][2]) \o LatexRowC])
              \o LatexTimeA \o out.ts \o LatexTimeB
              \o LatexEnd
        /\ \A k \in 1..Len(packages) :
              LatexUnescape(latex_escape(packages[k][2]))
                  = [ok |-> TRUE, v |-> packages[k][2]]

\* C9 witness: a LaTeX rendering of a value that holds a backslash followed
\* by a character the table does not name.
C9_Witness ==
    /\ out.fmt = "latex"
    /\ Len(packages) = 4
    /\ packages[4][2] = <<"\\", "a">>

====
